---------------------------- MODULE Spec2Model ----------------------------
(***************************************************************************)
(* The notebook "Warning Submission Using Python" as a state machine.      *)
(*                                                                         *)
(* The three code cells are one linear script: cell 1 sets the credentials *)
(* and the headers, cell 2 builds and prints the submission, cell 3 POSTs  *)
(* it with requests and prints the parsed response.                        *)
(*                                                                         *)
(* Representation of Python values.  A str is a sequence of characters     *)
(* (one-character strings; a non-ASCII character is named by its code      *)
(* point, "u0163").  A float literal with four decimals is the integer of  *)
(* its ten-thousandths (26.5208 is 265208).  A dict is the sequence of its *)
(* <<key, value>> pairs in insertion order; a list is a sequence.  Every   *)
(* value carries its type tag:  [t |-> "str", v |-> chars] and so on.      *)
(***************************************************************************)
EXTENDS Integers, Sequences, FiniteSets

VARIABLES
    pc,        \* the statement the script executes next
    lit,       \* the literals the participant wrote into the notebook
    ns,        \* the kernel's namespace: the script's global variables
    uuid_hex,  \* the values uuid4().hex has returned so far, in order
    stdout,    \* what pprint has written, one entry per call
    wire       \* the HTTP requests handed to the network, in order

vars == <<pc, lit, ns, uuid_hex, stdout, wire>>

(***************************************************************************)
(* Bounds of the model.                                                    *)
(***************************************************************************)
MaxIdLen == 1      \* longest participant name tried besides "testuser"
MaxTokLen == 1     \* longest token tried besides "mysecretkey"
HexLen == 1        \* length of the model's uuid4().hex (32 in Python)

(***************************************************************************)
(* String literals of the notebook.                                        *)
(***************************************************************************)
KeyParticipantId ==
    <<"p", "a", "r", "t", "i", "c", "i", "p", "a", "n", "t", "_", "i", "d">>
KeyPayload ==
    <<"p", "a", "y", "l", "o", "a", "d">>
KeyActor ==
    <<"A", "c", "t", "o", "r">>
KeyCity ==
    <<"C", "i", "t", "y">>
KeyState ==
    <<"S", "t", "a", "t", "e">>
KeyCountry ==
    <<"C", "o", "u", "n", "t", "r", "y">>
KeyLatitude ==
    <<"L", "a", "t", "i", "t", "u", "d", "e">>
KeyLongitude ==
    <<"L", "o", "n", "g", "i", "t", "u", "d", "e">>
KeyEventDate ==
    <<"E", "v", "e", "n", "t", "_", "D", "a", "t", "e">>
KeyEventType ==
    <<"E", "v", "e", "n", "t", "_", "T", "y", "p", "e">>
KeyEventSubtype ==
    <<"E", "v", "e", "n", "t", "_", "S", "u", "b", "t", "y", "p", "e">>
KeyWarningId ==
    <<"W", "a", "r", "n", "i", "n", "g", "_", "I", "D">>
KeyXApiKey ==
    <<"x", "-", "a", "p", "i", "-", "k", "e", "y">>
KeyContentType ==
    <<"C", "o", "n", "t", "e", "n", "t", "-", "T", "y", "p", "e">>
ApplicationJson ==
    <<"a", "p", "p", "l", "i", "c", "a", "t", "i", "o", "n", "/", "j", "s", "o", "n">>
LitSecretToken ==
    <<"m", "y", "s", "e", "c", "r", "e", "t", "k", "e", "y">>
LitUserid ==
    <<"t", "e", "s", "t", "u", "s", "e", "r">>
LitUrl ==
    <<"h", "t", "t", "p", "s", ":", "/", "/", "8", "7", "g", "5", "5", "4", "i", "9", "6", "c", ".", "e", "x", "e", "c", "u", "t", "e", "-", "a", "p", "i", ".", "u", "s", "-", "e", "a", "s", "t", "-", "1", ".", "a", "m", "a", "z", "o", "n", "a", "w", "s", ".", "c", "o", "m", "/", "P", "r", "o", "d", "u", "c", "t", "i", "o", "n", "/", "w", "a", "r", "n", "i", "n", "g", "/", "i", "n", "t", "a", "k", "e">>
LitCountry ==
    <<"S", "a", "u", "d", "i", " ", "A", "r", "a", "b", "i", "a">>
LitEventType ==
    <<"M", "i", "l", "i", "t", "a", "r", "y", " ", "A", "c", "t", "i", "v", "i", "t", "y">>
LitSubtype ==
    <<"C", "o", "n", "f", "l", "i", "c", "t">>
LitEventDate0 ==
    <<"2", "0", "1", "9", "-", "0", "8", "-", "2", "2">>
LitActor0 ==
    <<"R", "o", "y", "a", "l", " ", "S", "a", "u", "d", "i", " ", "M", "i", "l", "i", "t", "a", "r", "y">>
LitCity0 ==
    <<"A", "l", " ", "Q", "a", "u0163", "u012b", "f">>
LitState0 ==
    <<"E", "a", "s", "t", "e", "r", "n", " ", "P", "r", "o", "v", "i", "n", "c", "e">>
LitEventDate1 ==
    <<"2", "0", "1", "9", "-", "0", "8", "-", "2", "4">>
LitActor1 ==
    <<"R", "o", "y", "a", "l", " ", "S", "a", "u", "d", "i", " ", "M", "i", "l", "i", "t", "a", "r", "y">>
LitCity1 ==
    <<"A", "l", " ", "u2018", "A", "w", "u0101", "m", "u012b", "y", "a", "h">>
LitState1 ==
    <<"E", "a", "s", "t", "e", "r", "n", " ", "P", "r", "o", "v", "i", "n", "c", "e">>
UnknownEventType ==
    <<"N", "o", "t", " ", "a", " ", "M", "e", "r", "c", "u", "r", "y", " ", "E", "v", "e", "n", "t", " ", "T", "y", "p", "e">>
DiseaseEventType ==
    <<"D", "i", "s", "e", "a", "s", "e">>
KeyInserted ==
    <<"N", "e", "w", " ", "w", "a", "r", "n", "i", "n", "g", "s", " ", "o", "r", " ", "v", "e", "r", "s", "i", "o", "n", "s", " ", "i", "n", "s", "e", "r", "t", "e", "d">>
KeyReason ==
    <<"r", "e", "a", "s", "o", "n">>
KeyTotal ==
    <<"T", "o", "t", "a", "l", " ", "o", "p", "e", "r", "a", "t", "i", "o", "n", "s">>
KeyUpdated ==
    <<"E", "x", "i", "s", "t", "i", "n", "g", " ", "w", "a", "r", "n", "i", "n", "g", "s", " ", "u", "p", "d", "a", "t", "e", "d">>
KeyInvalid ==
    <<"I", "n", "v", "a", "l", "i", "d", " ", "w", "a", "r", "n", "i", "n", "g", "s">>
KeyResult ==
    <<"r", "e", "s", "u", "l", "t">>
ResultOk ==
    <<"o", "k">>
ResultError ==
    <<"e", "r", "r", "o", "r">>
ReasonUnknownType ==
    <<"P", "a", "y", "l", "o", "a", "d", " ", "i", "t", "e", "m", " ", "1", ":", " ", "U", "n", "k", "n", "o", "w", "n", " ", "e", "v", "e", "n", "t", " ", "t", "y", "p", "e", " ", "\"", "N", "o", "t", " ", "a", " ", "M", "e", "r", "c", "u", "r", "y", " ", "E", "v", "e", "n", "t", " ", "T", "y", "p", "e", "\"">>
ReasonMissingAttr ==
    <<"P", "a", "y", "l", "o", "a", "d", " ", "i", "t", "e", "m", " ", "4", ":", " ", "M", "i", "s", "s", "i", "n", "g", " ", "a", "t", "t", "r", "i", "b", "u", "t", "e", " ", "\"", "D", "i", "s", "e", "a", "s", "e", "\"">>
ParticipantNotMatching ==
    <<"P", "a", "r", "t", "i", "c", "i", "p", "a", "n", "t", " ", "n", "o", "t", " ", "m", "a", "t", "c", "h", "i", "n", "g">>
AsciiOrder ==
    <<" ", "\"", "-", ".", "/", "0", "1", "2", "3", "4", "5", "6", "7", "8", "9", ":", "A", "B", "C", "D", "E", "F", "G", "H", "I", "J", "K", "L", "M", "N", "O", "P", "Q", "R", "S", "T", "U", "V", "W", "X", "Y", "Z", "_", "a", "b", "c", "d", "e", "f", "g", "h", "i", "j", "k", "l", "m", "n", "o", "p", "q", "r", "s", "t", "u", "v", "w", "x", "y", "z">>

(***************************************************************************)
(* Numeric literals of the notebook, in ten-thousandths of a degree.       *)
(***************************************************************************)
LitLat0 == 265208
LitLon0 == 500245
LitLat1 == 265936
LitLon1 == 499875

(***************************************************************************)
(* The values the participant may write in place of the notebook's         *)
(* literals ("You will need to use your own user name and token and you'll *)
(* need to modify the warning content").                                   *)
(***************************************************************************)
SeqsOfLen(A, n) == [1..n -> A]
SeqsUpTo(A, n) == UNION {SeqsOfLen(A, k) : k \in 0..n}

IdAlphabet == {"a", ":"}
TokenAlphabet == {":"}
HexDigits == {"0", "f"}

UserIds == {LitUserid} \cup SeqsUpTo(IdAlphabet, MaxIdLen)
SecretTokens == {LitSecretToken} \cup SeqsUpTo(TokenAlphabet, MaxTokLen)
\* the warning content tried: the notebook's; an event type the challenge does
\* not know, at 91.0 degrees of latitude; an event type whose required
\* attribute "Disease" the records lack
Contents ==
    {[event_type |-> LitEventType, lat_0 |-> LitLat0],
     [event_type |-> UnknownEventType, lat_0 |-> 91 * 10000],
     [event_type |-> DiseaseEventType, lat_0 |-> LitLat0]}
HexTokens == SeqsOfLen(HexDigits, HexLen)

Literals ==
    {[userid |-> u, secret_token |-> tok, event_type |-> c.event_type, lat_0 |-> c.lat_0] :
        u \in UserIds, tok \in SecretTokens, c \in Contents}

(***************************************************************************)
(* Python values.                                                          *)
(***************************************************************************)
Str(s) == [t |-> "str", v |-> s]
Num(n) == [t |-> "num", v |-> n]
List(xs) == [t |-> "list", v |-> xs]
Dict(ps) == [t |-> "dict", v |-> ps]
None == [t |-> "null", v |-> <<>>]
Unset == [t |-> "unset", v |-> <<>>]

\* F applied to the value of a, which is computed once
Eager(F(_), a) == CHOOSE r \in {F(x) : x \in {a}} : TRUE

HasKey(d, k) == \E i \in 1..Len(d.v) : d.v[i][1] = k
DictGet(d, k) == d.v[CHOOSE i \in 1..Len(d.v) : d.v[i][1] = k][2]
DictSet(d, k, x) ==
    IF HasKey(d, k)
    THEN Dict([i \in 1..Len(d.v) |-> IF d.v[i][1] = k THEN <<k, x>> ELSE d.v[i]])
    ELSE Dict(Append(d.v, <<k, x>>))
Keys(d) == [i \in 1..Len(d.v) |-> d.v[i][1]]

(***************************************************************************)
(* str.format with the two templates the script uses.                      *)
(***************************************************************************)
\* mutants: the two arguments swapped; the identifier without its random part;
\* the random part put first
FormatApiKeySwapped(u, tok) == tok \o <<":">> \o u
FormatWarnIdNoHex(u, h) == u
FormatWarnIdReversed(u, h) == h \o u

FormatApiKey(u, tok) == u \o <<":">> \o tok
FormatWarnId(u, h) == u \o h

(***************************************************************************)
(* Ordering of str, by code point: what sorted() applies to dict keys.     *)
(***************************************************************************)
Ord(c) == CHOOSE i \in 1..Len(AsciiOrder) : AsciiOrder[i] = c

RECURSIVE StrLess(_, _)
StrLess(a, b) ==
    IF b = <<>> THEN FALSE
    ELSE IF a = <<>> THEN TRUE
    ELSE IF Head(a) = Head(b) THEN StrLess(Tail(a), Tail(b))
    ELSE Ord(Head(a)) < Ord(Head(b))

RECURSIVE InsertByKey(_, _)
InsertByKey(p, ps) ==
    IF ps = <<>> THEN <<p>>
    ELSE IF StrLess(p[1], Head(ps)[1]) THEN <<p>> \o ps
    ELSE <<Head(ps)>> \o InsertByKey(p, Tail(ps))

RECURSIVE SortByKey(_)
SortByKey(ps) ==
    IF ps = <<>> THEN <<>>
    ELSE Eager(LAMBDA sorted : InsertByKey(Head(ps), sorted), SortByKey(Tail(ps)))

RECURSIVE SortKeys(_)
SortKeys(x) ==
    CASE x.t = "dict" ->
           Eager(LAMBDA ps : Dict(SortByKey(ps)),
                 [i \in 1..Len(x.v) |-> <<x.v[i][1], SortKeys(x.v[i][2])>>])
      [] x.t = "list" -> List([i \in 1..Len(x.v) |-> SortKeys(x.v[i])])
      [] OTHER -> x

(***************************************************************************)
(* Text, as a sequence of tokens: a str or num token is the value itself,  *)
(* everything else is punctuation.  Emit writes a value in insertion       *)
(* order; the spelling of the null value is the only difference between    *)
(* repr() and json.dumps().                                                *)
(***************************************************************************)
P(c) == [t |-> "punct", v |-> c]

RECURSIVE Emit(_, _)
RECURSIVE EmitItems(_, _)
RECURSIVE EmitPairs(_, _)
Emit(x, null) ==
    CASE x.t = "dict" -> <<P("{")>> \o EmitPairs(x.v, null) \o <<P("}")>>
      [] x.t = "list" -> <<P("[")>> \o EmitItems(x.v, null) \o <<P("]")>>
      [] x.t = "null" -> <<P(null)>>
      [] OTHER -> <<x>>
EmitItems(xs, null) ==
    IF xs = <<>> THEN <<>>
    ELSE Emit(Head(xs), null)
         \o (IF Tail(xs) = <<>> THEN <<>> ELSE <<P(",")>> \o EmitItems(Tail(xs), null))
EmitPairs(ps, null) ==
    IF ps = <<>> THEN <<>>
    ELSE <<Str(Head(ps)[1]), P(":")>> \o Emit(Head(ps)[2], null)
         \o (IF Tail(ps) = <<>> THEN <<>> ELSE <<P(",")>> \o EmitPairs(Tail(ps), null))

Repr(x) == Emit(x, "None")
JsonDumps(x) == Emit(x, "null")
PFormat(x) == Eager(LAMBDA sorted : Repr(sorted), SortKeys(x))

(***************************************************************************)
(* json.loads: a recursive-descent parser of the token text.  It answers   *)
(* [ok, val, rest]; a text that is not JSON gives ok = FALSE (the          *)
(* ValueError of Response.json()).                                         *)
(***************************************************************************)
ParseFail == [ok |-> FALSE, val |-> None, rest |-> <<>>]

RECURSIVE ParseValue(_)
RECURSIVE ParseItems(_, _)
RECURSIVE ParsePairs(_, _)
ParseValue(ts) ==
    IF ts = <<>> THEN ParseFail
    ELSE LET h == Head(ts) IN
         CASE h.t \in {"str", "num"} -> [ok |-> TRUE, val |-> h, rest |-> Tail(ts)]
           [] h = P("null") -> [ok |-> TRUE, val |-> None, rest |-> Tail(ts)]
           [] h = P("[") ->
                IF Tail(ts) # <<>> /\ Head(Tail(ts)) = P("]")
                THEN [ok |-> TRUE, val |-> List(<<>>), rest |-> Tail(Tail(ts))]
                ELSE ParseItems(Tail(ts), <<>>)
           [] h = P("{") ->
                IF Tail(ts) # <<>> /\ Head(Tail(ts)) = P("}")
                THEN [ok |-> TRUE, val |-> Dict(<<>>), rest |-> Tail(Tail(ts))]
                ELSE ParsePairs(Tail(ts), Dict(<<>>))
           [] OTHER -> ParseFail
ParseItems(ts, acc) ==
    LET More(r) ==
            IF ~r.ok \/ r.rest = <<>> THEN ParseFail
            ELSE IF Head(r.rest) = P(",")
                 THEN Eager(LAMBDA items : ParseItems(Tail(r.rest), items),
                            Append(acc, r.val))
            ELSE IF Head(r.rest) = P("]")
                 THEN [ok |-> TRUE, val |-> List(Append(acc, r.val)),
                       rest |-> Tail(r.rest)]
            ELSE ParseFail
    IN Eager(More, ParseValue(ts))
ParsePairs(ts, acc) ==
    LET More(r) ==
            IF ~r.ok \/ r.rest = <<>> THEN ParseFail
            ELSE IF Head(r.rest) = P(",")
                 THEN Eager(LAMBDA pairs : ParsePairs(Tail(r.rest), pairs),
                            DictSet(acc, ts[1].v, r.val))
            ELSE IF Head(r.rest) = P("}")
                 THEN [ok |-> TRUE, val |-> DictSet(acc, ts[1].v, r.val),
                       rest |-> Tail(r.rest)]
            ELSE ParseFail
    IN IF Len(ts) < 3 \/ ts[1].t # "str" \/ ts[2] # P(":") THEN ParseFail
       ELSE Eager(More, ParseValue(SubSeq(ts, 3, Len(ts))))

JsonLoads(ts) ==
    LET Whole(r) == IF r.ok /\ r.rest = <<>> THEN r ELSE ParseFail
    IN Eager(Whole, ParseValue(ts))

(***************************************************************************)
(* The statements of the script, as functions of the namespace n.          *)
(***************************************************************************)
Names ==
    {"secret_token", "userid", "url", "headers", "submission", "country",
     "event_type", "subtype", "warn_id_0", "event_date_0", "actor_0", "lat_0",
     "lon_0", "city_0", "state_0", "warn_content_0", "warn_id_1",
     "event_date_1", "actor_1", "lat_1", "lon_1", "city_1", "state_1",
     "warn_content_1", "result"}

EmptyNamespace == [name \in Names |-> Unset]

\* secret_token = ...; userid = ...; url = ...; headers = {'x-api-key': ...}
Credentials(n, l) ==
    LET m == [n EXCEPT !.secret_token = Str(l.secret_token),
                       !.userid = Str(l.userid),
                       !.url = Str(LitUrl)]
    IN [m EXCEPT !.headers =
            Dict(<< <<KeyXApiKey, Str(FormatApiKey(m.userid.v, m.secret_token.v))>> >>)]

\* submission = {"participant_id": userid, "payload": []}; country = ...
NewSubmission(n, l) ==
    [n EXCEPT !.submission = Dict(<< <<KeyParticipantId, n.userid>>,
                                     <<KeyPayload, List(<<>>)>> >>),
              !.country = Str(LitCountry),
              !.event_type = Str(l.event_type),
              !.subtype = Str(LitSubtype)]

\* mutant: secret_token formatted in place of userid
WarnId0FromToken(n, h) ==
    [n EXCEPT !.warn_id_0 = Str(FormatWarnId(n.secret_token.v, h))]

\* warn_id_0 = "{0}{1}".format(userid, uuid4().hex), h the value drawn
WarnId0(n, h) == [n EXCEPT !.warn_id_0 = Str(FormatWarnId(n.userid.v, h))]

\* mutant: the latitude clamped to 90 degrees before it is stored
WarnContent0Clamped(n, l) ==
    LET m == [n EXCEPT !.event_date_0 = Str(LitEventDate0),
                       !.actor_0 = Str(LitActor0),
                       !.lat_0 = Num(IF l.lat_0 > 90 * 10000 THEN 90 * 10000 ELSE l.lat_0),
                       !.lon_0 = Num(LitLon0),
                       !.city_0 = Str(LitCity0),
                       !.state_0 = Str(LitState0)]
    IN [m EXCEPT !.warn_content_0 =
            Dict(<< <<KeyActor, m.actor_0>>, <<KeyCity, m.city_0>>,
                    <<KeyState, m.state_0>>, <<KeyCountry, m.country>>,
                    <<KeyLatitude, m.lat_0>>, <<KeyLongitude, m.lon_0>>,
                    <<KeyEventDate, m.event_date_0>>,
                    <<KeyEventType, m.event_type>>,
                    <<KeyEventSubtype, m.subtype>>,
                    <<KeyWarningId, m.warn_id_0>> >>)]

\* event_date_0 = ... state_0 = ...; warn_content_0 = {...}
WarnContent0(n, l) ==
    LET m == [n EXCEPT !.event_date_0 = Str(LitEventDate0),
                       !.actor_0 = Str(LitActor0),
                       !.lat_0 = Num(l.lat_0),
                       !.lon_0 = Num(LitLon0),
                       !.city_0 = Str(LitCity0),
                       !.state_0 = Str(LitState0)]
    IN [m EXCEPT !.warn_content_0 =
            Dict(<< <<KeyActor, m.actor_0>>, <<KeyCity, m.city_0>>,
                    <<KeyState, m.state_0>>, <<KeyCountry, m.country>>,
                    <<KeyLatitude, m.lat_0>>, <<KeyLongitude, m.lon_0>>,
                    <<KeyEventDate, m.event_date_0>>,
                    <<KeyEventType, m.event_type>>,
                    <<KeyEventSubtype, m.subtype>>,
                    <<KeyWarningId, m.warn_id_0>> >>)]

\* warn_id_1 = "{0}{1}".format(userid, uuid4().hex), h the value drawn
WarnId1(n, h) == [n EXCEPT !.warn_id_1 = Str(FormatWarnId(n.userid.v, h))]

\* event_date_1 = ... state_1 = ...; warn_content_1 = {...}
WarnContent1(n) ==
    LET m == [n EXCEPT !.event_date_1 = Str(LitEventDate1),
                       !.actor_1 = Str(LitActor1),
                       !.lat_1 = Num(LitLat1),
                       !.lon_1 = Num(LitLon1),
                       !.city_1 = Str(LitCity1),
                       !.state_1 = Str(LitState1)]
    IN [m EXCEPT !.warn_content_1 =
            Dict(<< <<KeyActor, m.actor_1>>, <<KeyCity, m.city_1>>,
                    <<KeyState, m.state_1>>, <<KeyCountry, m.country>>,
                    <<KeyLatitude, m.lat_1>>, <<KeyLongitude, m.lon_1>>,
                    <<KeyEventDate, m.event_date_1>>,
                    <<KeyEventType, m.event_type>>,
                    <<KeyEventSubtype, m.subtype>>,
                    <<KeyWarningId, m.warn_id_1>> >>)]

\* mutant: the two records in the other order
SetPayloadSwapped(n) ==
    [n EXCEPT !.submission =
        DictSet(n.submission, KeyPayload, List(<<n.warn_content_1, n.warn_content_0>>))]

\* submission["payload"] = [warn_content_0, warn_content_1]
SetPayload(n) ==
    [n EXCEPT !.submission =
        DictSet(n.submission, KeyPayload, List(<<n.warn_content_0, n.warn_content_1>>))]

\* pprint(x): one entry of stdout
PPrint(out, x) == Append(out, PFormat(x))

\* mutant: the body passed as data=, which adds no Content-Type
PreparedRequestNoContentType(n) ==
    [method |-> "POST", url |-> n.url.v, headers |-> n.headers,
     body |-> JsonDumps(n.submission)]

\* requests.post(url, headers=headers, json=submission): the request that is
\* sent.  json= makes the body json.dumps(submission) and adds the
\* Content-Type header unless the caller's headers carry one.
PreparedRequest(n) ==
    [method |-> "POST",
     url |-> n.url.v,
     headers |-> IF HasKey(n.headers, KeyContentType) THEN n.headers
                 ELSE DictSet(n.headers, KeyContentType, Str(ApplicationJson)),
     body |-> JsonDumps(n.submission)]

(***************************************************************************)
(* What the server may answer: the bodies the notebook lists (the counters *)
(* of a successful and of a rejected submission, the bare string of a      *)
(* participant mismatch), and a body that is not JSON at all.              *)
(***************************************************************************)
Counters(inserted, reason, total, updated, invalid, result) ==
    Dict(<< <<KeyInserted, Num(inserted)>>, <<KeyReason, reason>>,
            <<KeyTotal, Num(total)>>, <<KeyUpdated, Num(updated)>>,
            <<KeyInvalid, Num(invalid)>>, <<KeyResult, Str(result)>> >>)

NotJson == <<[t |-> "raw", v |-> <<"<", "h", "t", "m", "l", ">">>]>>

ResponseBodies ==
    {JsonDumps(Counters(2, None, 2, 0, 0, ResultOk)),
     JsonDumps(Counters(0, Str(ReasonUnknownType), 1, 0, 1, ResultError)),
     JsonDumps(Counters(0, Str(ReasonMissingAttr), 4, 0, 4, ResultError)),
     JsonDumps(Str(ParticipantNotMatching)),
     NotJson}

Response(body) == [t |-> "response", v |-> body]

(***************************************************************************)
(* The script, statement by statement.                                     *)
(***************************************************************************)
Init ==
    /\ pc = "credentials"
    /\ lit \in Literals
    /\ ns = EmptyNamespace
    /\ uuid_hex = <<>>
    /\ stdout = <<>>
    /\ wire = <<>>

RunCredentials ==
    /\ pc = "credentials"
    /\ ns' = Credentials(ns, lit)
    /\ pc' = "submission"
    /\ UNCHANGED <<lit, uuid_hex, stdout, wire>>

RunNewSubmission ==
    /\ pc = "submission"
    /\ ns' = NewSubmission(ns, lit)
    /\ pc' = "warn_id_0"
    /\ UNCHANGED <<lit, uuid_hex, stdout, wire>>

RunWarnId0 ==
    /\ pc = "warn_id_0"
    /\ \E h \in HexTokens :
          /\ uuid_hex' = Append(uuid_hex, h)
          /\ ns' = WarnId0(ns, h)
    /\ pc' = "warn_content_0"
    /\ UNCHANGED <<lit, stdout, wire>>

RunWarnContent0 ==
    /\ pc = "warn_content_0"
    /\ ns' = WarnContent0(ns, lit)
    /\ pc' = "warn_id_1"
    /\ UNCHANGED <<lit, uuid_hex, stdout, wire>>

RunWarnId1 ==
    /\ pc = "warn_id_1"
    /\ \E h \in HexTokens :
          /\ uuid_hex' = Append(uuid_hex, h)
          /\ ns' = WarnId1(ns, h)
    /\ pc' = "warn_content_1"
    /\ UNCHANGED <<lit, stdout, wire>>

\* mutant: the assignment of the payload left out
RunWarnContent1SkipPayload ==
    /\ pc = "warn_content_1"
    /\ ns' = WarnContent1(ns)
    /\ pc' = "pprint_submission"
    /\ UNCHANGED <<lit, uuid_hex, stdout, wire>>

RunWarnContent1 ==
    /\ pc = "warn_content_1"
    /\ ns' = WarnContent1(ns)
    /\ pc' = "payload"
    /\ UNCHANGED <<lit, uuid_hex, stdout, wire>>

RunSetPayload ==
    /\ pc = "payload"
    /\ ns' = SetPayload(ns)
    /\ pc' = "pprint_submission"
    /\ UNCHANGED <<lit, uuid_hex, stdout, wire>>

RunPPrintSubmission ==
    /\ pc = "pprint_submission"
    /\ stdout' = PPrint(stdout, ns.submission)
    /\ pc' = "post"
    /\ UNCHANGED <<lit, ns, uuid_hex, wire>>

\* requests.post is entered: the request leaves, the script blocks
PostSend ==
    /\ pc = "post"
    /\ wire' = Append(wire, PreparedRequest(ns))
    /\ pc' = "awaiting"
    /\ UNCHANGED <<lit, ns, uuid_hex, stdout>>

\* requests.post returns the server's response, which is bound to result
PostReturn ==
    /\ pc = "awaiting"
    /\ \E body \in ResponseBodies : ns' = [ns EXCEPT !.result = Response(body)]
    /\ pc' = "pprint_result"
    /\ UNCHANGED <<lit, uuid_hex, stdout, wire>>

\* requests.post raises (no connection): the script ends with the exception
PostRaise ==
    /\ pc = "awaiting"
    /\ pc' = "raised"
    /\ UNCHANGED <<lit, ns, uuid_hex, stdout, wire>>

\* mutant: a rejected submission is sent again
RunPPrintResultRetry ==
    /\ pc = "pprint_result"
    /\ LET r == JsonLoads(ns.result.v) IN
          IF r.ok
          THEN /\ stdout' = PPrint(stdout, r.val)
               /\ pc' = IF r.val.t = "dict" /\ DictGet(r.val, KeyResult) = Str(ResultError)
                        THEN "post" ELSE "done"
          ELSE /\ stdout' = stdout
               /\ pc' = "raised"
    /\ UNCHANGED <<lit, ns, uuid_hex, wire>>

\* mutant: the response is parsed and not printed
RunPPrintResultSilent ==
    /\ pc = "pprint_result"
    /\ stdout' = stdout
    /\ pc' = IF JsonLoads(ns.result.v).ok THEN "done" ELSE "raised"
    /\ UNCHANGED <<lit, ns, uuid_hex, wire>>

\* pprint(result.json())
RunPPrintResult ==
    /\ pc = "pprint_result"
    /\ LET r == JsonLoads(ns.result.v) IN
          IF r.ok
          THEN /\ stdout' = PPrint(stdout, r.val)
               /\ pc' = "done"
          ELSE /\ stdout' = stdout
               /\ pc' = "raised"
    /\ UNCHANGED <<lit, ns, uuid_hex, wire>>

\* the statements of the script itself, which run without waiting
Step ==
    \/ RunCredentials
    \/ RunNewSubmission
    \/ RunWarnId0
    \/ RunWarnContent0
    \/ RunWarnId1
    \/ RunWarnContent1
    \/ RunSetPayload
    \/ RunPPrintSubmission
    \/ PostSend
    \/ RunPPrintResult

Next == Step \/ PostReturn \/ PostRaise

Spec == Init /\ [][Next]_vars

\* the script under the scheduling of a single thread: a statement that can
\* run does run; nothing obliges the network to answer
FairSpec == Spec /\ WF_vars(Step)

(***************************************************************************)
(* Vocabulary of the properties.                                           *)
(***************************************************************************)
PcOrder ==
    <<"credentials", "submission", "warn_id_0", "warn_content_0", "warn_id_1",
      "warn_content_1", "payload", "pprint_submission", "post", "awaiting",
      "pprint_result", "done", "raised">>

PcIndex(p) == CHOOSE i \in 1..Len(PcOrder) : PcOrder[i] = p

\* submission["payload"] has been assigned
Built == PcIndex(pc) > PcIndex("payload")
\* both identifiers have been generated
Drawn == PcIndex(pc) > PcIndex("warn_id_1")
\* requests.post has been entered
Posted == PcIndex(pc) > PcIndex("post")
\* requests.post has returned a response
Answered == ns.result # Unset
\* the script is over
Ended == pc \in {"done", "raised"}

Range(s) == {s[i] : i \in 1..Len(s)}
IsPrefix(p, s) == Len(p) <= Len(s) /\ SubSeq(s, 1, Len(p)) = p
Remainder(p, s) == SubSeq(s, Len(p) + 1, Len(s))

\* the object a sent body decodes to
BodyOf(r) == JsonLoads(r.body).val
\* the records of a submission's payload
Payload(s) == DictGet(s, KeyPayload).v
WarningIdOf(w) == DictGet(w, KeyWarningId).v

\* the participant part of an x-api-key value: the text before its first colon
RECURSIVE BeforeColon(_)
BeforeColon(s) ==
    IF s = <<>> \/ Head(s) = ":" THEN <<>> ELSE <<Head(s)>> \o BeforeColon(Tail(s))

ApiKeyOf(r) == DictGet(r.headers, KeyXApiKey).v

WarningKeys ==
    <<KeyActor, KeyCity, KeyState, KeyCountry, KeyLatitude, KeyLongitude,
      KeyEventDate, KeyEventType, KeyEventSubtype, KeyWarningId>>

\* the order in which the notebook's output shows the fields of a record
PrintedWarningKeys ==
    <<KeyActor, KeyCity, KeyCountry, KeyEventDate, KeyEventSubtype, KeyEventType,
      KeyLatitude, KeyLongitude, KeyState, KeyWarningId>>

NotebookLiterals ==
    /\ lit.userid = LitUserid
    /\ lit.secret_token = LitSecretToken
    /\ lit.event_type = LitEventType
    /\ lit.lat_0 = LitLat0

(***************************************************************************)
(* C1.  Every request the script issues is a POST to the intake URL that   *)
(* carries Content-Type: application/json and an x-api-key made of the     *)
(* participant name, one colon and the token, in that order and with       *)
(* nothing else; its body is a JSON object whose fields are participant_id *)
(* and payload.                                                            *)
(***************************************************************************)
C1_Request ==
    \A i \in 1..Len(wire) :
        LET r == wire[i]
            key == ApiKeyOf(r)
            u == lit.userid
            body == JsonLoads(r.body)
        IN /\ r.method = "POST"
           /\ r.url = LitUrl
           /\ HasKey(r.headers, KeyContentType)
           /\ DictGet(r.headers, KeyContentType) = Str(ApplicationJson)
           /\ HasKey(r.headers, KeyXApiKey)
           /\ Len(key) = Len(u) + 1 + Len(lit.secret_token)
           /\ IsPrefix(u, key)
           /\ key[Len(u) + 1] = ":"
           /\ Remainder(u \o <<":">>, key) = lit.secret_token
           /\ body.ok
           /\ body.val.t = "dict"
           /\ Keys(body.val) = <<KeyParticipantId, KeyPayload>>

C1_Witness == Posted /\ NotebookLiterals

(***************************************************************************)
(* C2.  As claimed: in every request, the participant_id of the body       *)
(* equals the text before the colon of the x-api-key header.               *)
(***************************************************************************)
C2_Original ==
    \A i \in 1..Len(wire) :
        DictGet(BodyOf(wire[i]), KeyParticipantId).v = BeforeColon(ApiKeyOf(wire[i]))

(***************************************************************************)
(* C2, amended.  When the participant name holds no colon, the             *)
(* participant_id of the body equals the text before the first colon of    *)
(* the x-api-key header, whatever the token.                               *)
(***************************************************************************)
C2_Amended == (":" \notin Range(lit.userid)) => C2_Original

C2_Witness ==
    /\ Posted
    /\ lit.userid # <<>>
    /\ ":" \notin Range(lit.userid)
    /\ ":" \in Range(lit.secret_token)

(***************************************************************************)
(* C3.  A run issues exactly one request: none before requests.post is     *)
(* entered and one from then on, whatever the server answers; once the     *)
(* script is over it has printed the submission and, after it, nothing but *)
(* the parsed response.                                                    *)
(***************************************************************************)
C3_OnePost ==
    /\ Len(wire) = (IF Posted THEN 1 ELSE 0)
    /\ \A i \in 1..Len(wire) : wire[i].method = "POST"
    /\ pc = "done" =>
          /\ JsonLoads(ns.result.v).ok
          /\ stdout = <<PFormat(ns.submission), PFormat(JsonLoads(ns.result.v).val)>>
    /\ pc = "raised" => stdout = <<PFormat(ns.submission)>>

C3_Witness ==
    /\ pc = "done"
    /\ JsonLoads(ns.result.v).val.t = "dict"
    /\ DictGet(JsonLoads(ns.result.v).val, KeyResult) = Str(ResultError)

(***************************************************************************)
(* C4.  Once built, the submission has the two fields participant_id       *)
(* (userid) and payload, in that order; payload is the list                *)
(* [warn_content_0, warn_content_1]; each record has the ten fields Actor, *)
(* City, State, Country, Latitude, Longitude, Event_Date, Event_Type,      *)
(* Event_Subtype, Warning_ID with the values assigned to them; and it      *)
(* prints with its fields in the order of the notebook's output.           *)
(***************************************************************************)
HasFields(w, actor, city, state, lat, lon, date, id) ==
    /\ w.t = "dict"
    /\ Keys(w) = WarningKeys
    /\ DictGet(w, KeyActor) = Str(actor)
    /\ DictGet(w, KeyCity) = Str(city)
    /\ DictGet(w, KeyState) = Str(state)
    /\ DictGet(w, KeyCountry) = Str(LitCountry)
    /\ DictGet(w, KeyLatitude) = Num(lat)
    /\ DictGet(w, KeyLongitude) = Num(lon)
    /\ DictGet(w, KeyEventDate) = Str(date)
    /\ DictGet(w, KeyEventType) = Str(lit.event_type)
    /\ DictGet(w, KeyEventSubtype) = Str(LitSubtype)
    /\ DictGet(w, KeyWarningId) = id

C4_Submission ==
    Built =>
        LET s == ns.submission IN
        /\ s.t = "dict"
        /\ Keys(s) = <<KeyParticipantId, KeyPayload>>
        /\ DictGet(s, KeyParticipantId) = Str(lit.userid)
        /\ DictGet(s, KeyParticipantId) = ns.userid
        /\ DictGet(s, KeyPayload) = List(<<ns.warn_content_0, ns.warn_content_1>>)
        /\ Len(Payload(s)) = 2
        /\ HasFields(Payload(s)[1], LitActor0, LitCity0, LitState0, lit.lat_0,
                     LitLon0, LitEventDate0, ns.warn_id_0)
        /\ HasFields(Payload(s)[2], LitActor1, LitCity1, LitState1, LitLat1,
                     LitLon1, LitEventDate1, ns.warn_id_1)
        /\ Keys(SortKeys(s)) = <<KeyParticipantId, KeyPayload>>
        /\ \A i \in 1..2 : Keys(Payload(SortKeys(s))[i]) = PrintedWarningKeys

C4_Witness == pc = "done" /\ NotebookLiterals

C6_WarningId ==
    Built =>
        \A i \in 1..Len(Payload(ns.submission)) :
            LET id == WarningIdOf(Payload(ns.submission)[i])
                u == DictGet(ns.submission, KeyParticipantId).v
            IN /\ u = lit.userid
               /\ u = ns.userid.v
               /\ IsPrefix(u, id)
               /\ Remainder(u, id) = uuid_hex[i]
               /\ Len(id) = Len(u) + HexLen

C6_Witness == pc = "done" /\ lit.userid # <<>> /\ Len(Payload(ns.submission)) = 2

(***************************************************************************)
(* C7.  The statements run in one fixed order.  The submission is printed  *)
(* only once it is built, the request leaves only after that print and     *)
(* never with an empty payload, and the response is printed only after the *)
(* request; the body sent is the submission printed before it; and neither *)
(* the built submission nor the headers change afterwards, the POST        *)
(* included.                                                               *)
(***************************************************************************)
C7_Order ==
    /\ [](/\ Len(stdout) <= 2
          /\ Len(stdout) >= 1 => Built /\ stdout[1] = PFormat(ns.submission)
          /\ Posted =>
                /\ Len(stdout) >= 1
                /\ JsonLoads(wire[1].body).ok
                /\ Payload(BodyOf(wire[1])) # <<>>
                /\ PFormat(BodyOf(wire[1])) = stdout[1]
                /\ wire[1].body = JsonDumps(ns.submission)
                /\ ApiKeyOf(wire[1]) = DictGet(ns.headers, KeyXApiKey).v
          /\ Len(stdout) = 2 => Posted /\ Answered)
    /\ [][pc' # "raised" => PcIndex(pc') = PcIndex(pc) + 1]_vars
    /\ [][Built => ns'.submission = ns.submission]_vars
    /\ [][ns.headers # Unset => ns'.headers = ns.headers]_vars

C7_Witness == pc = "done" /\ Len(stdout) = 2 /\ Len(wire) = 1

(***************************************************************************)
(* C8.  Nothing is validated locally: whatever event type and latitude the *)
(* participant wrote (an unknown type, a type whose required attribute the *)
(* records lack, a latitude out of range), the request is issued and       *)
(* carries those values as written; and no response, an error included,    *)
(* changes the submission or the headers.                                  *)
(***************************************************************************)
C8_NoValidation ==
    /\ [](Posted =>
            LET sent == Payload(BodyOf(wire[1])) IN
            /\ Len(sent) = 2
            /\ \A i \in 1..2 : DictGet(sent[i], KeyEventType) = Str(lit.event_type)
            /\ DictGet(sent[1], KeyLatitude) = Num(lit.lat_0))
    /\ [](Answered =>
            /\ JsonDumps(ns.submission) = wire[1].body
            /\ PreparedRequest(ns).headers = wire[1].headers)
    /\ [][Posted => ns'.submission = ns.submission /\ ns'.headers = ns.headers]_vars
    /\ <>Posted

C8_Witness ==
    /\ pc = "done"
    /\ lit.event_type = UnknownEventType
    /\ lit.lat_0 # LitLat0
    /\ JsonLoads(ns.result.v).val.t = "dict"
    /\ DictGet(JsonLoads(ns.result.v).val, KeyResult) = Str(ResultError)
    /\ JsonDumps(ns.submission) = wire[1].body

(***************************************************************************)
(* C9.  As claimed: a run that has ended and in which requests.post        *)
(* returned a response has printed the parsed response.                    *)
(***************************************************************************)
C9_Original == (Ended /\ Answered) => (pc = "done" /\ Len(stdout) = 2)

(***************************************************************************)
(* C9, amended.  Every statement but the call of requests.post can run as  *)
(* soon as it is reached; while the call has not returned, the response is *)
(* not printed; and once the call has returned a response whose body is    *)
(* JSON, the run reaches its end having printed the parsed response.       *)
(***************************************************************************)
C9_Amended ==
    /\ []((~Ended /\ pc # "awaiting") => ENABLED Step)
    /\ [](pc = "awaiting" => ~Answered /\ Len(stdout) = 1)
    /\ [](Len(stdout) = 2 => Answered)
    /\ (Answered /\ JsonLoads(ns.result.v).ok)
          ~> (/\ pc = "done"
              /\ Len(stdout) = 2
              /\ stdout[2] = PFormat(JsonLoads(ns.result.v).val))

C9_Witness ==
    /\ pc = "done"
    /\ Answered
    /\ stdout[2] = PFormat(JsonLoads(ns.result.v).val)

(***************************************************************************)
(* C10.  The token reaches the outside through the x-api-key header only:  *)
(* the same script run with any other token, the same userid and the same  *)
(* uuid4() values builds the same submission, prints the same text and     *)
(* sends the same body to the same URL, and differs in its headers.        *)
(***************************************************************************)
RECURSIVE Replay(_, _, _)
Replay(k, l, hexes) ==
    IF k = 0 THEN EmptyNamespace
    ELSE LET n == Replay(k - 1, l, hexes) IN
         CASE k = 1 -> Credentials(n, l)
           [] k = 2 -> NewSubmission(n, l)
           [] k = 3 -> WarnId0(n, hexes[1])
           [] k = 4 -> WarnContent0(n, l)
           [] k = 5 -> WarnId1(n, hexes[2])
           [] k = 6 -> WarnContent1(n)
           [] OTHER -> SetPayload(n)

\* the number of assignments to the namespace done so far, result aside
Executed ==
    IF Built THEN PcIndex("payload") ELSE PcIndex(pc) - 1

C10_TokenOnlyInHeader ==
    \A tok \in SecretTokens :
        LET other == Replay(Executed, [lit EXCEPT !.secret_token = tok], uuid_hex) IN
        /\ tok = lit.secret_token => [other EXCEPT !.result = ns.result] = ns
        /\ other.submission = ns.submission
        /\ Len(stdout) >= 1 => PFormat(other.submission) = stdout[1]
        /\ Posted => LET r == PreparedRequest(other) IN
                     r.body = wire[1].body /\ r.url = wire[1].url
        /\ (Executed >= 1 /\ tok # lit.secret_token) => other.headers # ns.headers

C10_Witness ==
    /\ Posted
    /\ Len(stdout) = 2
    /\ lit.secret_token = LitSecretToken
    /\ Cardinality(SecretTokens) > 1

=============================================================================
